---------------------------- MODULE Spec2Model ----------------------------
(***************************************************************************)
(* prompt-pad-api: a FastAPI backend-for-frontend.  Every request passes   *)
(* the get_current_user guard (app/dependencies.py) and is then served by  *)
(* one handler of the groups, prompts or auth router, which issues one or  *)
(* more calls on the Supabase client (the gateway) and maps the response   *)
(* onto an HTTP status.                                                    *)
(*                                                                         *)
(* The backend store is the state; one action is one whole request.  The   *)
(* last request served is recorded in `last` (its operation, arguments,    *)
(* header, status, the gateway calls it issued and the body it returned),  *)
(* so that properties of a request relate the store before it (unprimed)   *)
(* to the response and the store after it (primed).                        *)
(***************************************************************************)
EXTENDS Naturals, Sequences, FiniteSets

\* Requests served in one behaviour.
MaxRequests == 3

Users == {"u1", "u2"}
GroupIds == {"g1", "g2"}
PromptIds == {"p1", "p2"}
InviteIds == {"i1"}
ShareIds == {"s1", "s2"}
FileIds == {"f1", "f2"}
NA == "-"

Email(u) == IF u = "u1" THEN "u1@x" ELSE "u2@x"
Emails == {Email(u) : u \in Users}
UserOfEmail(e) == CHOOSE u \in Users : Email(u) = e

VARIABLES
    sdk,            \* how the installed Supabase client reports a failed call
    groups,         \* table groups
    group_members,  \* table group_members
    group_invites,  \* table group_invites
    prompts,        \* table prompts
    prompt_shares,  \* table prompt_shares
    group_prompts,  \* table group_prompts
    user_profiles,  \* table user_profiles: user id -> avatar_url
    storage,        \* bucket profile-pictures: the stored object paths
    last,           \* the last request served and its response
    nreq,           \* requests served so far
    upstream        \* the exchange with api.openai.com of the last request

vars == <<sdk, groups, group_members, group_invites, prompts, prompt_shares,
          group_prompts, user_profiles, storage, last, nreq, upstream>>

(***************************************************************************)
(* Token verifier (app/dependencies.py)                                    *)
(***************************************************************************)
NoToken == [fmt |-> NA, sig |-> NA, exp |-> NA, sub |-> NA, id |-> NA]
NoHeader == [present |-> FALSE, scheme |-> NA, token |-> NoToken]

\* Tokens signed with the configured secret and not expired.  The payload
\* always carries sub and email; an issuer may add an `id` claim.
ValidTokens ==
    { [fmt |-> "jwt", sig |-> "good", exp |-> "future", sub |-> "u1", id |-> NA],
      [fmt |-> "jwt", sig |-> "good", exp |-> "future", sub |-> "u1", id |-> "same"],
      [fmt |-> "jwt", sig |-> "good", exp |-> "future", sub |-> "u2", id |-> "same"] }

BadTokens ==
    { [fmt |-> "garbage", sig |-> NA, exp |-> NA, sub |-> NA, id |-> NA],
      [fmt |-> "jwt", sig |-> "bad", exp |-> "future", sub |-> "u1", id |-> NA],
      [fmt |-> "jwt", sig |-> "good", exp |-> "past", sub |-> "u1", id |-> NA] }

Headers ==
    {NoHeader}
    \cup {[present |-> TRUE, scheme |-> "Basic", token |-> t] :
            t \in {v \in ValidTokens : v.sub = "u1" /\ v.id = NA}}
    \cup {[present |-> TRUE, scheme |-> "Bearer", token |-> t] :
            t \in ValidTokens \cup BadTokens}

NoClaims == [sub |-> NA, email |-> NA, id |-> NA]

\* jwt.decode(token, secret, algorithms=[ALGORITHM], options={"verify_aud": False}):
\* the payload, or a PyJWTError (malformed, wrong signature, expired).
jwt_decode(token) ==
    IF token.fmt # "jwt" \/ token.sig # "good" \/ token.exp # "future"
    THEN [ok |-> FALSE, payload |-> NoClaims]
    ELSE [ok |-> TRUE,
          payload |-> [sub |-> token.sub, email |-> Email(token.sub),
                       id |-> IF token.id = "same" THEN token.sub ELSE NA]]

\* A mutant of the guard: any Bearer token's payload is taken without
\* verification.
get_current_user_unverified(authorization) ==
    IF ~authorization.present THEN [status |-> 422, payload |-> NoClaims]
    ELSE IF authorization.scheme # "Bearer" \/ authorization.token.fmt # "jwt"
    THEN [status |-> 401, payload |-> NoClaims]
    ELSE [status |-> 200,
          payload |-> [sub |-> authorization.token.sub,
                       email |-> Email(authorization.token.sub), id |-> NA]]

\* Header(...) is a required parameter: FastAPI answers 422 when the header
\* is missing, before the body of get_current_user runs.
get_current_user(authorization) ==
    IF ~authorization.present THEN [status |-> 422, payload |-> NoClaims]
    ELSE IF authorization.scheme # "Bearer"
    THEN [status |-> 401, payload |-> NoClaims]
    ELSE LET d == jwt_decode(authorization.token)
         IN  IF d.ok THEN [status |-> 200, payload |-> d.payload]
             ELSE [status |-> 401, payload |-> NoClaims]

(***************************************************************************)
(* The gateway (app/supabase_client.py) and its responses                  *)
(***************************************************************************)
\* The client library is not part of the repository.  A failed call is
\* either raised as an exception, the response of a call that worked having
\* no `error` attribute ("raises"), or returned as a response whose `error`
\* carries a message, `error` being None when the call worked ("error_attr").
SdkStyles == {"raises", "error_attr"}

DB == [groups |-> groups, group_members |-> group_members,
       group_invites |-> group_invites, prompts |-> prompts,
       prompt_shares |-> prompt_shares, group_prompts |-> group_prompts,
       user_profiles |-> user_profiles, storage |-> storage]

\* The response of one gateway call: fails is whether the backend refused
\* the statement, rows is what it returns when it did not.
execute(fails, rows) ==
    [raised |-> fails /\ sdk = "raises",
     data   |-> IF fails THEN {} ELSE rows,
     error  |-> IF sdk = "raises" THEN "absent"
                ELSE IF fails THEN "msg" ELSE "none"]

\* One gateway call as the request's record keeps it.
Call(tbl, verb, by, fails, rows) ==
    [tbl |-> tbl, verb |-> verb, by |-> by, failed |-> fails,
     empty |-> fails \/ rows = {}]

\* `if not resp.data: raise HTTPException(status_code=400,
\* detail=resp.error.message)`: the 400 is reached only if resp.error has a
\* message; otherwise the attribute access fails and the framework answers
\* 500.
raise_error_message(resp) == IF resp.error = "msg" THEN 400 ELSE 500

\* `if hasattr(resp, "error"): raise ...`
check_hasattr_error(resp) ==
    IF resp.error # "absent" THEN raise_error_message(resp) ELSE 200

\* `if hasattr(resp, "error") and resp.error: raise ...`
check_hasattr_and_error(resp) ==
    IF resp.error = "msg" THEN 400 ELSE 200

\* `if resp.error: raise ...`
check_error(resp) ==
    IF resp.error = "absent" THEN 500
    ELSE IF resp.error = "msg" THEN 400 ELSE 200

\* What a handler leaves behind: the store, the status, the calls, the body.
Done(db, status, calls, body) ==
    [db |-> db, status |-> status, calls |-> calls, body |-> body]

NoArg == [gid |-> NA, pid |-> NA, iid |-> NA, uid |-> NA, val |-> NA]

NewId(ids, used) == CHOOSE x \in ids : x \notin used

(***************************************************************************)
(* Groups router (app/routers/groups.py).  Each handler takes the store,   *)
(* the verified claims, its arguments and, per gateway call, whether the   *)
(* backend refuses the statement.                                          *)
(***************************************************************************)
IsMember(db, gid, uid) ==
    \E m \in db.group_members : m.group_id = gid /\ m.user_id = uid

fetch_groups(db, user, a, f1, f2) ==
    LET mine == {m \in db.group_members : m.user_id = user.sub}
        member_resp == execute(f1, {[id |-> m.group_id, flag |-> TRUE] : m \in mine})
        c1 == Call("group_members", "select", user.sub, f1, mine)
        member_group_ids == {r.id : r \in member_resp.data}
        visible == {g \in db.groups :
                       g.privacy = "public" \/ g.id \in member_group_ids}
        groups_resp == execute(f2, visible)
        c2 == Call("groups", "select", NA, f2, visible)
        processed_groups ==
            {[id |-> g.id, flag |-> IsMember(db, g.id, user.sub)] :
                g \in groups_resp.data}
    IN  IF member_resp.raised THEN Done(db, 500, <<c1>>, {})
        ELSE IF member_resp.data = {}
        THEN Done(db, raise_error_message(member_resp), <<c1>>, {})
        ELSE IF groups_resp.raised THEN Done(db, 500, <<c1, c2>>, {})
        ELSE IF groups_resp.data = {}
        THEN Done(db, raise_error_message(groups_resp), <<c1, c2>>, {})
        ELSE Done(db, 200, <<c1, c2>>, processed_groups)

\* A mutant: the creator is also inserted as a member of the new group.
create_group_with_membership(db, user, a, f1, f2) ==
    LET gid == NewId(GroupIds, {g.id : g \in db.groups})
        row == [id |-> gid, privacy |-> a.val, created_by |-> user.sub]
        insert_resp == execute(f1, {row})
        c1 == Call("groups", "insert", user.sub, f1, {row})
        db2 == IF f1 THEN db
               ELSE [db EXCEPT !.groups = @ \cup {row},
                               !.group_members = @ \cup
                                   {[group_id |-> gid, user_id |-> user.sub,
                                     role |-> "admin"]}]
    IN  IF insert_resp.raised THEN Done(db, 500, <<c1>>, {})
        ELSE IF insert_resp.data = {}
        THEN Done(db2, raise_error_message(insert_resp), <<c1>>, {})
        ELSE Done(db2, 200, <<c1>>, {[id |-> gid, flag |-> FALSE]})

create_group(db, user, a, f1, f2) ==
    LET gid == NewId(GroupIds, {g.id : g \in db.groups})
        row == [id |-> gid, privacy |-> a.val, created_by |-> user.sub]
        insert_resp == execute(f1, {row})
        c1 == Call("groups", "insert", user.sub, f1, {row})
        db2 == IF f1 THEN db ELSE [db EXCEPT !.groups = @ \cup {row}]
    IN  IF insert_resp.raised THEN Done(db, 500, <<c1>>, {})
        ELSE IF insert_resp.data = {}
        THEN Done(db2, raise_error_message(insert_resp), <<c1>>, {})
        ELSE Done(db2, 200, <<c1>>, {[id |-> gid, flag |-> FALSE]})

update_group(db, user, a, f1, f2) ==
    LET hit == {g \in db.groups : g.id = a.gid}
        new == {[g EXCEPT !.privacy = a.val] : g \in hit}
        update_resp == execute(f1, new)
        c1 == Call("groups", "update", NA, f1, new)
        db2 == IF f1 THEN db ELSE [db EXCEPT !.groups = (@ \ hit) \cup new]
    IN  IF update_resp.raised THEN Done(db, 500, <<c1>>, {})
        ELSE IF update_resp.data = {}
        THEN Done(db2, raise_error_message(update_resp), <<c1>>, {})
        ELSE Done(db2, 200, <<c1>>, {[id |-> a.gid, flag |-> FALSE]})

delete_group(db, user, a, f1, f2) ==
    LET hit == {g \in db.groups : g.id = a.gid}
        delete_resp == execute(f1, hit)
        c1 == Call("groups", "delete", NA, f1, hit)
        db2 == IF f1 THEN db ELSE [db EXCEPT !.groups = @ \ hit]
    IN  IF delete_resp.raised THEN Done(db, 500, <<c1>>, {})
        ELSE IF delete_resp.data = {}
        THEN Done(db2, raise_error_message(delete_resp), <<c1>>, {})
        ELSE Done(db2, 200, <<c1>>, {})

fetch_members(db, user, a, f1, f2) ==
    LET rows == {m \in db.group_members : m.group_id = a.gid}
        resp == execute(f1, rows)
        c1 == Call("group_member_details", "select", NA, f1, rows)
    IN  IF resp.raised THEN Done(db, 500, <<c1>>, {})
        ELSE IF check_hasattr_error(resp) # 200
        THEN Done(db, check_hasattr_error(resp), <<c1>>, {})
        ELSE Done(db, 200, <<c1>>, {[id |-> m.user_id, flag |-> TRUE] : m \in resp.data})

\* The insert is refused when the group does not exist (foreign key) or the
\* (group, user) pair is already a member (unique).
add_member(db, user, a, f1, f2) ==
    LET row == [group_id |-> a.gid, user_id |-> a.uid, role |-> a.val]
        refused == f1 \/ (\A g \in db.groups : g.id # a.gid)
                      \/ IsMember(db, a.gid, a.uid)
        insert_resp == execute(refused, {row})
        c1 == Call("group_members", "insert", NA, refused, {row})
        db2 == IF refused THEN db
               ELSE [db EXCEPT !.group_members = @ \cup {row}]
    IN  IF insert_resp.raised THEN Done(db, 400, <<c1>>, {})
        ELSE IF check_hasattr_error(insert_resp) # 200
        THEN Done(db2, check_hasattr_error(insert_resp), <<c1>>, {})
        ELSE Done(db2, 200, <<c1>>, {[id |-> a.uid, flag |-> TRUE]})

\* .single(): the call is refused unless exactly one row is returned.
update_member_role(db, user, a, f1, f2) ==
    LET hit == {m \in db.group_members :
                   m.group_id = a.gid /\ m.user_id = a.uid}
        new == {[m EXCEPT !.role = a.val] : m \in hit}
        refused == f1 \/ Cardinality(hit) # 1
        update_resp == execute(refused, new)
        c1 == Call("group_members", "update", NA, refused, new)
        db2 == IF refused THEN db
               ELSE [db EXCEPT !.group_members = (@ \ hit) \cup new]
    IN  IF update_resp.raised THEN Done(db, 500, <<c1>>, {})
        ELSE IF check_hasattr_error(update_resp) # 200
        THEN Done(db2, check_hasattr_error(update_resp), <<c1>>, {})
        ELSE Done(db2, 200, <<c1>>, {[id |-> a.uid, flag |-> TRUE]})

remove_member(db, user, a, f1, f2) ==
    LET hit == {m \in db.group_members :
                   m.group_id = a.gid /\ m.user_id = a.uid}
        delete_resp == execute(f1, hit)
        c1 == Call("group_members", "delete", NA, f1, hit)
        db2 == IF f1 THEN db ELSE [db EXCEPT !.group_members = @ \ hit]
    IN  IF delete_resp.raised THEN Done(db, 500, <<c1>>, {})
        ELSE IF check_hasattr_error(delete_resp) # 200
        THEN Done(db2, check_hasattr_error(delete_resp), <<c1>>, {})
        ELSE Done(db2, 200, <<c1>>, {})

fetch_group_prompts(db, user, a, f1, f2) ==
    LET rows == {r \in db.group_prompts : r.group_id = a.gid}
        resp == execute(f1, rows)
        c1 == Call("group_prompt_details", "select", NA, f1, rows)
    IN  IF resp.raised THEN Done(db, 500, <<c1>>, {})
        ELSE IF check_hasattr_error(resp) # 200
        THEN Done(db, check_hasattr_error(resp), <<c1>>, {})
        ELSE Done(db, 200, <<c1>>, {[id |-> r.prompt_id, flag |-> TRUE] : r \in resp.data})

\* POST /groups/{group_id}/prompts/{prompt_id}; a link that exists already
\* is refused (primary key).
group_share_prompt(db, user, a, f1, f2) ==
    LET data == [group_id |-> a.gid, prompt_id |-> a.pid, shared_by |-> user.sub]
        refused == f1 \/ (\E r \in db.group_prompts :
                             r.group_id = a.gid /\ r.prompt_id = a.pid)
        insert_resp == execute(refused, {data})
        c1 == Call("group_prompts", "insert", user.sub, refused, {data})
        db2 == IF refused THEN db
               ELSE [db EXCEPT !.group_prompts = @ \cup {data}]
    IN  IF insert_resp.raised THEN Done(db, 500, <<c1>>, {})
        ELSE IF check_hasattr_error(insert_resp) # 200
        THEN Done(db2, check_hasattr_error(insert_resp), <<c1>>, {})
        ELSE Done(db2, 200, <<c1>>, {[id |-> a.pid, flag |-> TRUE]})

unshare_prompt(db, user, a, f1, f2) ==
    LET hit == {r \in db.group_prompts :
                   r.group_id = a.gid /\ r.prompt_id = a.pid}
        resp == execute(f1, hit)
        c1 == Call("group_prompts", "delete", NA, f1, hit)
        db2 == IF f1 THEN db ELSE [db EXCEPT !.group_prompts = @ \ hit]
    IN  IF resp.raised THEN Done(db, 500, <<c1>>, {})
        ELSE IF check_hasattr_error(resp) # 200
        THEN Done(db2, check_hasattr_error(resp), <<c1>>, {})
        ELSE Done(db2, 200, <<c1>>, {})

\* `if hasattr(resp, "data")` holds of every response.
fetch_invites(db, user, a, f1, f2) ==
    LET rows == {i \in db.group_invites :
                    i.email = user.email /\ i.status = "pending"}
        resp == execute(f1, rows)
        c1 == Call("group_invite_details", "select", user.email, f1, rows)
    IN  IF resp.raised THEN Done(db, 500, <<c1>>, {})
        ELSE Done(db, raise_error_message(resp), <<c1>>, {})

\* The row is inserted without a status: the table's default is pending.
invite_member(db, user, a, f1, f2) ==
    LET iid == NewId(InviteIds, {i.id : i \in db.group_invites})
        row == [id |-> iid, group_id |-> a.gid, email |-> a.val,
                status |-> "pending", invited_by |-> user.sub]
        insert_resp == execute(f1, {row})
        c1 == Call("group_invites", "insert", user.sub, f1, {row})
        db2 == IF f1 THEN db ELSE [db EXCEPT !.group_invites = @ \cup {row}]
    IN  IF insert_resp.raised THEN Done(db, 500, <<c1>>, {})
        ELSE IF check_hasattr_error(insert_resp) # 200
        THEN Done(db2, check_hasattr_error(insert_resp), <<c1>>, {})
        ELSE Done(db2, 200, <<c1>>, {[id |-> iid, flag |-> FALSE]})

cancel_invite(db, user, a, f1, f2) ==
    LET hit == {i \in db.group_invites : i.id = a.iid}
        delete_resp == execute(f1, hit)
        c1 == Call("group_invites", "delete", NA, f1, hit)
        db2 == IF f1 THEN db ELSE [db EXCEPT !.group_invites = @ \ hit]
    IN  IF delete_resp.raised THEN Done(db, 500, <<c1>>, {})
        ELSE IF delete_resp.data = {}
        THEN Done(db2, raise_error_message(delete_resp), <<c1>>, {})
        ELSE Done(db2, 200, <<c1>>, {})

\* The backend's remote procedure accept_group_invite(invite_id): in one
\* step the pending invite becomes accepted and the invited user becomes a
\* member of the invite's group; anything else is refused.
accept_group_invite_refused(db, iid) ==
    \/ \A i \in db.group_invites : i.id # iid \/ i.status # "pending"
    \/ \E i \in db.group_invites :
          i.id = iid /\ IsMember(db, i.group_id, UserOfEmail(i.email))

accept_group_invite(db, iid) ==
    LET hit == {i \in db.group_invites : i.id = iid}
    IN  [db EXCEPT
           !.group_invites = (@ \ hit) \cup {[i EXCEPT !.status = "accepted"] : i \in hit},
           !.group_members = @ \cup {[group_id |-> i.group_id,
                                      user_id |-> UserOfEmail(i.email),
                                      role |-> "member"] : i \in hit}]

\* A mutant: the response's error is not looked at.
accept_invite_unchecked(db, user, a, f1, f2) ==
    LET refused == f1 \/ accept_group_invite_refused(db, a.iid)
        resp == execute(refused, {[id |-> a.iid, flag |-> TRUE]})
        c1 == Call("accept_group_invite", "rpc", NA, refused, {a.iid})
        db2 == IF refused THEN db ELSE accept_group_invite(db, a.iid)
    IN  IF resp.raised THEN Done(db, 500, <<c1>>, {})
        ELSE Done(db2, 200, <<c1>>, {})

accept_invite(db, user, a, f1, f2) ==
    LET refused == f1 \/ accept_group_invite_refused(db, a.iid)
        resp == execute(refused, {[id |-> a.iid, flag |-> TRUE]})
        c1 == Call("accept_group_invite", "rpc", NA, refused, {a.iid})
        db2 == IF refused THEN db ELSE accept_group_invite(db, a.iid)
    IN  IF resp.raised THEN Done(db, 500, <<c1>>, {})
        ELSE IF check_error(resp) # 200
        THEN Done(db2, check_error(resp), <<c1>>, {})
        ELSE Done(db2, 200, <<c1>>, {})

decline_invite(db, user, a, f1, f2) ==
    LET hit == {i \in db.group_invites : i.id = a.iid}
        new == {[i EXCEPT !.status = "declined"] : i \in hit}
        update_resp == execute(f1, new)
        c1 == Call("group_invites", "update", NA, f1, new)
        db2 == IF f1 THEN db
               ELSE [db EXCEPT !.group_invites = (@ \ hit) \cup new]
    IN  IF update_resp.raised THEN Done(db, 500, <<c1>>, {})
        ELSE IF update_resp.data = {}
        THEN Done(db2, raise_error_message(update_resp), <<c1>>, {})
        ELSE Done(db2, 200, <<c1>>, {})

(***************************************************************************)
(* Prompts router (app/routers/prompts.py).  The handlers that attribute   *)
(* or filter by the caller read user["id"]: a payload without an `id`      *)
(* claim makes them fail with a KeyError (500) before any gateway call.    *)
(***************************************************************************)
fetch_prompts(db, user, a, f1, f2) ==
    LET resp == execute(f1, db.prompts)
        c1 == Call("prompts", "select", NA, f1, db.prompts)
    IN  IF resp.raised THEN Done(db, 500, <<c1>>, {})
        ELSE IF check_hasattr_and_error(resp) # 200
        THEN Done(db, 400, <<c1>>, {})
        ELSE Done(db, 200, <<c1>>, {[id |-> p.id, flag |-> FALSE] : p \in resp.data})

create_prompt(db, user, a, f1, f2) ==
    LET pid == NewId(PromptIds, {p.id : p \in db.prompts})
        prompt_data == [id |-> pid, user_id |-> user.id, visibility |-> a.val]
        insert_resp == execute(f1, {prompt_data})
        c1 == Call("prompts", "insert", user.id, f1, {prompt_data})
        db2 == IF f1 THEN db ELSE [db EXCEPT !.prompts = @ \cup {prompt_data}]
    IN  IF user.id = NA THEN Done(db, 500, <<>>, {})
        ELSE IF insert_resp.raised THEN Done(db, 500, <<c1>>, {})
        ELSE IF check_hasattr_and_error(insert_resp) # 200
        THEN Done(db2, 400, <<c1>>, {})
        ELSE Done(db2, 200, <<c1>>, {[id |-> pid, flag |-> FALSE]})

\* response_model=dict: returning the empty list of an update that matched
\* no row fails the response validation (500).
update_prompt(db, user, a, f1, f2) ==
    LET hit == {p \in db.prompts : p.id = a.pid /\ p.user_id = user.id}
        new == {[p EXCEPT !.visibility = a.val] : p \in hit}
        update_resp == execute(f1, new)
        c1 == Call("prompts", "update", user.id, f1, new)
        db2 == IF f1 THEN db ELSE [db EXCEPT !.prompts = (@ \ hit) \cup new]
    IN  IF user.id = NA THEN Done(db, 500, <<>>, {})
        ELSE IF update_resp.raised THEN Done(db, 500, <<c1>>, {})
        ELSE IF check_hasattr_and_error(update_resp) # 200
        THEN Done(db2, 400, <<c1>>, {})
        ELSE IF update_resp.data # {}
        THEN Done(db2, 200, <<c1>>, {[id |-> a.pid, flag |-> FALSE]})
        ELSE Done(db2, 500, <<c1>>, {})

delete_prompt(db, user, a, f1, f2) ==
    LET hit == {p \in db.prompts : p.id = a.pid /\ p.user_id = user.id}
        delete_resp == execute(f1, hit)
        c1 == Call("prompts", "delete", user.id, f1, hit)
        db2 == IF f1 THEN db ELSE [db EXCEPT !.prompts = @ \ hit]
    IN  IF user.id = NA THEN Done(db, 500, <<>>, {})
        ELSE IF delete_resp.raised THEN Done(db, 500, <<c1>>, {})
        ELSE IF check_hasattr_and_error(delete_resp) # 200
        THEN Done(db2, 400, <<c1>>, {})
        ELSE Done(db2, 200, <<c1>>, {})

\* POST /prompts/{prompt_id}/share: the row is request.dict(), whose
\* prompt_id is the body's (a.val); the path's prompt_id (a.pid) is unused.
share_prompt(db, user, a, f1, f2) ==
    LET sid == NewId(ShareIds, {s.id : s \in db.prompt_shares})
        share_data == [id |-> sid, prompt_id |-> a.val, shared_with |-> a.uid,
                       shared_by |-> user.id]
        insert_resp == execute(f1, {share_data})
        c1 == Call("prompt_shares", "insert", user.id, f1, {share_data})
        db2 == IF f1 THEN db
               ELSE [db EXCEPT !.prompt_shares = @ \cup {share_data}]
    IN  IF user.id = NA THEN Done(db, 500, <<>>, {})
        ELSE IF insert_resp.raised THEN Done(db, 500, <<c1>>, {})
        ELSE IF check_hasattr_and_error(insert_resp) # 200
        THEN Done(db2, 400, <<c1>>, {})
        ELSE Done(db2, 200, <<c1>>, {[id |-> sid, flag |-> FALSE]})

\* A variant that deletes every share row of the prompt, whoever it is
\* shared with.
revoke_prompt_access_all(db, user, a, f1, f2) ==
    LET hit == {s \in db.prompt_shares : s.prompt_id = a.pid}
        delete_resp == execute(f1, hit)
        c1 == Call("prompt_shares", "delete", NA, f1, hit)
        db2 == IF f1 THEN db ELSE [db EXCEPT !.prompt_shares = @ \ hit]
    IN  IF delete_resp.raised THEN Done(db, 500, <<c1>>, {})
        ELSE IF check_hasattr_and_error(delete_resp) # 200
        THEN Done(db2, 400, <<c1>>, {})
        ELSE Done(db2, 200, <<c1>>, {})

\* DELETE /prompts/{prompt_id}/share/{shared_with}: .match() on the pair.
revoke_prompt_access(db, user, a, f1, f2) ==
    LET hit == {s \in db.prompt_shares :
                   s.prompt_id = a.pid /\ s.shared_with = a.uid}
        delete_resp == execute(f1, hit)
        c1 == Call("prompt_shares", "delete", NA, f1, hit)
        db2 == IF f1 THEN db ELSE [db EXCEPT !.prompt_shares = @ \ hit]
    IN  IF delete_resp.raised THEN Done(db, 500, <<c1>>, {})
        ELSE IF check_hasattr_and_error(delete_resp) # 200
        THEN Done(db2, 400, <<c1>>, {})
        ELSE Done(db2, 200, <<c1>>, {})

get_prompt_shares(db, user, a, f1, f2) ==
    LET rows == {s \in db.prompt_shares : s.prompt_id = a.pid}
        resp == execute(f1, rows)
        c1 == Call("prompt_shares", "select", NA, f1, rows)
    IN  IF resp.raised THEN Done(db, 500, <<c1>>, {})
        ELSE IF check_hasattr_and_error(resp) # 200
        THEN Done(db, 400, <<c1>>, {})
        ELSE Done(db, 200, <<c1>>, {[id |-> s.id, flag |-> FALSE] : s \in resp.data})

update_visibility(db, user, a, f1, f2) ==
    LET hit == {p \in db.prompts : p.id = a.pid /\ p.user_id = user.id}
        new == {[p EXCEPT !.visibility = a.val] : p \in hit}
        update_resp == execute(f1, new)
        c1 == Call("prompts", "update", user.id, f1, new)
        db2 == IF f1 THEN db ELSE [db EXCEPT !.prompts = (@ \ hit) \cup new]
    IN  IF user.id = NA THEN Done(db, 500, <<>>, {})
        ELSE IF update_resp.raised THEN Done(db, 500, <<c1>>, {})
        ELSE IF check_hasattr_and_error(update_resp) # 200
        THEN Done(db2, 400, <<c1>>, {})
        ELSE Done(db2, 200, <<c1>>, {})

(***************************************************************************)
(* Auth router (app/routers/auth.py)                                       *)
(***************************************************************************)
NoPath == [owner |-> NA, file |-> NA]
GivenUrl == [owner |-> "ext", file |-> "ext"]

\* Public: no guard.  response.user is missing when the sign-in failed.
sign_in(db, user, a, f1, f2) ==
    LET response == execute(f1, {[id |-> a.uid, flag |-> TRUE]})
        c1 == Call("auth", "sign_in_with_password", NA, f1, {a.uid})
    IN  IF response.raised THEN Done(db, 500, <<c1>>, {})
        ELSE IF response.data = {} THEN Done(db, 400, <<c1>>, {})
        ELSE Done(db, 200, <<c1>>, {[id |-> a.uid, flag |-> TRUE]})

\* Public: no guard.
sign_up(db, user, a, f1, f2) ==
    LET response == execute(f1, {[id |-> a.uid, flag |-> TRUE]})
        c1 == Call("auth", "sign_up", NA, f1, {a.uid})
    IN  IF response.raised THEN Done(db, 500, <<c1>>, {})
        ELSE IF response.error = "msg" THEN Done(db, 400, <<c1>>, {})
        ELSE Done(db, 200, <<c1>>, {[id |-> a.uid, flag |-> TRUE]})

get_user(db, user, a, f1, f2) ==
    LET rows == {[id |-> user.sub, flag |-> TRUE]}
        profile_resp == execute(f1, rows)
        c1 == Call("user_profiles", "select", user.sub, f1, rows)
    IN  IF profile_resp.raised THEN Done(db, 500, <<c1>>, {})
        ELSE IF profile_resp.data = {}
        THEN Done(db, raise_error_message(profile_resp), <<c1>>, {})
        ELSE Done(db, 200, <<c1>>, profile_resp.data)

update_profile(db, user, a, f1, f2) ==
    LET rows == {[id |-> user.sub, flag |-> TRUE]}
        profile_resp == execute(f1, rows)
        c1 == Call("user_profiles", "update", user.sub, f1, rows)
        db2 == IF f1 THEN db
               ELSE [db EXCEPT !.user_profiles[user.sub] = GivenUrl]
    IN  IF profile_resp.raised THEN Done(db, 500, <<c1>>, {})
        ELSE IF profile_resp.data = {} THEN Done(db2, 400, <<c1>>, {})
        ELSE Done(db2, 200, <<c1>>, profile_resp.data)

\* A mutant: the stored object is removed again when the profile update
\* did not go through.
upload_avatar_compensating(db, user, a, f1, f2) ==
    LET file_path == [owner |-> user.id,
                      file |-> NewId(FileIds, {o.file : o \in db.storage})]
        upload_response == execute(f1, {file_path})
        c1 == Call("storage", "upload", user.id, f1, {file_path})
        c2 == Call("storage", "get_public_url", user.id, FALSE, {file_path})
        update_resp == execute(f2, {[id |-> user.sub, flag |-> TRUE]})
        c3 == Call("user_profiles", "update", user.sub, f2, {user.sub})
        db2 == IF f1 THEN db ELSE [db EXCEPT !.storage = @ \cup {file_path}]
        db3 == IF f2 THEN db2
               ELSE [db2 EXCEPT !.user_profiles[user.sub] = file_path]
    IN  IF user.id = NA THEN Done(db, 500, <<>>, {})
        ELSE IF upload_response.raised THEN Done(db, 500, <<c1>>, {})
        ELSE IF check_error(upload_response) # 200
        THEN Done(db2, check_error(upload_response), <<c1>>, {})
        ELSE IF update_resp.raised THEN Done(db, 500, <<c1, c2, c3>>, {})
        ELSE IF check_error(update_resp) # 200
        THEN Done(db, check_error(update_resp), <<c1, c2, c3>>, {})
        ELSE Done(db3, 200, <<c1, c2, c3>>, {[id |-> user.sub, flag |-> TRUE]})

\* The path is f"{user['id']}/{uuid4()}.{ext}"; the profile row is keyed by
\* user["sub"]; .single() on the update.
upload_avatar(db, user, a, f1, f2) ==
    LET file_path == [owner |-> user.id,
                      file |-> NewId(FileIds, {o.file : o \in db.storage})]
        upload_response == execute(f1, {file_path})
        c1 == Call("storage", "upload", user.id, f1, {file_path})
        c2 == Call("storage", "get_public_url", user.id, FALSE, {file_path})
        update_resp == execute(f2, {[id |-> user.sub, flag |-> TRUE]})
        c3 == Call("user_profiles", "update", user.sub, f2, {user.sub})
        db2 == IF f1 THEN db ELSE [db EXCEPT !.storage = @ \cup {file_path}]
        db3 == IF f2 THEN db2
               ELSE [db2 EXCEPT !.user_profiles[user.sub] = file_path]
    IN  IF user.id = NA THEN Done(db, 500, <<>>, {})
        ELSE IF upload_response.raised THEN Done(db, 500, <<c1>>, {})
        ELSE IF check_error(upload_response) # 200
        THEN Done(db2, check_error(upload_response), <<c1>>, {})
        ELSE IF update_resp.raised THEN Done(db2, 500, <<c1, c2, c3>>, {})
        ELSE IF check_error(update_resp) # 200
        THEN Done(db3, check_error(update_resp), <<c1, c2, c3>>, {})
        ELSE Done(db3, 200, <<c1, c2, c3>>, {[id |-> user.sub, flag |-> TRUE]})

sign_out(db, user, a, f1, f2) == Done(db, 200, <<>>, {})

(***************************************************************************)
(* OpenAI service (app/services/openai_service.py) and its router          *)
(* (app/routers/openai_api.py)                                             *)
(***************************************************************************)
\* The final status of the exchange as requests.post returns it: 300 stands
\* for a 3xx answer that the HTTP library does not follow (no Location).
UpstreamStatuses == {200, 204, 300, 401, 500}
Bodies == {"b1", "b2"}

\* posts counts the requests.post calls of the request; reached is FALSE
\* when the connection fails; json is whether the body parses as JSON.
NoUpstream == [posts |-> 0, reached |-> FALSE, status |-> 0, json |-> FALSE,
               body |-> NA]
Upstreams ==
    {[posts |-> 1, reached |-> FALSE, status |-> 0, json |-> FALSE, body |-> NA]}
    \cup {[posts |-> 1, reached |-> TRUE, status |-> s, json |-> TRUE, body |-> b] :
             s \in UpstreamStatuses, b \in Bodies}
    \cup {[posts |-> 1, reached |-> TRUE, status |-> s, json |-> FALSE, body |-> NA] :
             s \in UpstreamStatuses}

\* response.raise_for_status(): raises for a client or a server error.
raise_for_status(status) == 400 <= status /\ status < 600

\* One requests.post; response.json() before raise_for_status(), so a body
\* that is not JSON raises whatever the status.
call_openai(up) ==
    IF ~up.reached THEN [raised |-> TRUE, body |-> NA]
    ELSE IF ~up.json THEN [raised |-> TRUE, body |-> NA]
    ELSE IF raise_for_status(up.status) THEN [raised |-> TRUE, body |-> NA]
    ELSE [raised |-> FALSE, body |-> up.body]

\* try: return call_openai(...)  except Exception: raise HTTPException(500)
openai_endpoint(db, user, up) ==
    LET response == call_openai(up)
        c1 == Call("chat/completions", "post", NA, response.raised, {})
    IN  IF response.raised THEN Done(db, 500, <<c1>>, {})
        ELSE Done(db, 200, <<c1>>, {[id |-> response.body, flag |-> TRUE]})

(***************************************************************************)
(* Requests                                                                *)
(***************************************************************************)
Privacies == {"public", "private"}
Roles == {"member", "admin"}

Idle == [op |-> "none", hdr |-> NoHeader, arg |-> NoArg, guarded |-> FALSE,
         user |-> NoClaims, status |-> 200, calls |-> <<>>, body |-> {}]

\* The store is empty when the service starts, but for the profile rows,
\* which the backend creates with its users.
Init ==
    /\ sdk \in SdkStyles
    /\ groups = {}
    /\ group_members = {}
    /\ group_invites = {}
    /\ prompts = {}
    /\ prompt_shares = {}
    /\ group_prompts = {}
    /\ user_profiles = [u \in Users |-> NoPath]
    /\ storage = {}
    /\ last = Idle
    /\ nreq = 0
    /\ upstream = NoUpstream

\* A request is taken when the previous one has been answered.
Ready == last = Idle /\ nreq < MaxRequests

\* The response of one request and the store it leaves.
Respond(op, hdr, a, guarded, user, result) ==
    \E r \in {result} :
        /\ nreq' = nreq + 1
        /\ groups' = r.db.groups
        /\ group_members' = r.db.group_members
        /\ group_invites' = r.db.group_invites
        /\ prompts' = r.db.prompts
        /\ prompt_shares' = r.db.prompt_shares
        /\ group_prompts' = r.db.group_prompts
        /\ user_profiles' = r.db.user_profiles
        /\ storage' = r.db.storage
        /\ last' = [op |-> op, hdr |-> hdr, arg |-> a, guarded |-> guarded,
                    user |-> user, status |-> r.status, calls |-> r.calls,
                    body |-> r.body]
        /\ UNCHANGED sdk

\* user: dict = Depends(get_current_user), when the guard raises: the
\* handler does not run, whatever the rest of the request holds.
Rejected(op, hdr) ==
    \E auth \in {get_current_user(hdr)} :
        /\ auth.status # 200
        /\ Respond(op, hdr, NoArg, TRUE, NoClaims,
                   Done(DB, auth.status, <<>>, {}))
        /\ upstream' = NoUpstream

\* user: dict = Depends(get_current_user), when the guard returns a payload:
\* the handler runs with it.
Depends(op, hdr, a, result) ==
    \E auth \in {get_current_user(hdr)} :
        /\ auth.status = 200
        /\ Respond(op, hdr, a, TRUE, auth.payload, result)
        /\ upstream' = NoUpstream

\* The payload a handler receives as `user`.
Claims(hdr) == get_current_user(hdr).payload

\* A handler without the guard: the header is not read.
Public(op, a, result) ==
    /\ Respond(op, NoHeader, a, FALSE, NoClaims, result)
    /\ upstream' = NoUpstream

\* The response is sent; nothing of the request is kept (the Principal is
\* rebuilt per request).
Finish ==
    /\ last # Idle
    /\ last' = Idle
    /\ upstream' = NoUpstream
    /\ UNCHANGED <<sdk, groups, group_members, group_invites, prompts,
                   prompt_shares, group_prompts, user_profiles, storage, nreq>>

Free(ids, used) == ids \ used # {}

FetchGroups ==
    /\ Ready
    /\ \E hdr \in Headers :
           \/ Rejected("fetch_groups", hdr)
           \/ \E f1, f2 \in BOOLEAN :
                 Depends("fetch_groups", hdr, NoArg,
                         fetch_groups(DB, Claims(hdr), NoArg,
                                      f1, f2))

CreateGroup ==
    /\ Ready
    /\ \E hdr \in Headers :
           \/ Rejected("create_group", hdr)
           \/ \E v \in Privacies, f1 \in BOOLEAN :
                 /\ Free(GroupIds, {g.id : g \in groups})
                 /\ Depends("create_group", hdr, [NoArg EXCEPT !.val = v],
                         create_group(DB, Claims(hdr), [NoArg EXCEPT !.val = v],
                                      f1, FALSE))

UpdateGroup ==
    /\ Ready
    /\ \E hdr \in Headers :
           \/ Rejected("update_group", hdr)
           \/ \E g \in GroupIds, v \in Privacies, f1 \in BOOLEAN :
                 Depends("update_group", hdr, [NoArg EXCEPT !.gid = g, !.val = v],
                         update_group(DB, Claims(hdr), [NoArg EXCEPT !.gid = g, !.val = v],
                                      f1, FALSE))

DeleteGroup ==
    /\ Ready
    /\ \E hdr \in Headers :
           \/ Rejected("delete_group", hdr)
           \/ \E g \in GroupIds, f1 \in BOOLEAN :
                 Depends("delete_group", hdr, [NoArg EXCEPT !.gid = g],
                         delete_group(DB, Claims(hdr), [NoArg EXCEPT !.gid = g],
                                      f1, FALSE))

FetchMembers ==
    /\ Ready
    /\ \E hdr \in Headers :
           \/ Rejected("fetch_members", hdr)
           \/ \E g \in GroupIds, f1 \in BOOLEAN :
                 Depends("fetch_members", hdr, [NoArg EXCEPT !.gid = g],
                         fetch_members(DB, Claims(hdr), [NoArg EXCEPT !.gid = g],
                                       f1, FALSE))

AddMember ==
    /\ Ready
    /\ \E hdr \in Headers :
           \/ Rejected("add_member", hdr)
           \/ \E g \in GroupIds, u \in Users, v \in {"member"}, f1 \in BOOLEAN :
                 Depends("add_member", hdr, [NoArg EXCEPT !.gid = g, !.uid = u, !.val = v],
                         add_member(DB, Claims(hdr), [NoArg EXCEPT !.gid = g, !.uid = u, !.val = v],
                                    f1, FALSE))

UpdateMemberRole ==
    /\ Ready
    /\ \E hdr \in Headers :
           \/ Rejected("update_member_role", hdr)
           \/ \E g \in GroupIds, u \in Users, v \in Roles, f1 \in BOOLEAN :
                 Depends("update_member_role", hdr, [NoArg EXCEPT !.gid = g, !.uid = u, !.val = v],
                         update_member_role(DB, Claims(hdr), [NoArg EXCEPT !.gid = g, !.uid = u, !.val = v],
                                            f1, FALSE))

RemoveMember ==
    /\ Ready
    /\ \E hdr \in Headers :
           \/ Rejected("remove_member", hdr)
           \/ \E g \in GroupIds, u \in Users, f1 \in BOOLEAN :
                 Depends("remove_member", hdr, [NoArg EXCEPT !.gid = g, !.uid = u],
                         remove_member(DB, Claims(hdr), [NoArg EXCEPT !.gid = g, !.uid = u],
                                       f1, FALSE))

FetchGroupPrompts ==
    /\ Ready
    /\ \E hdr \in Headers :
           \/ Rejected("fetch_group_prompts", hdr)
           \/ \E g \in GroupIds, f1 \in BOOLEAN :
                 Depends("fetch_group_prompts", hdr, [NoArg EXCEPT !.gid = g],
                         fetch_group_prompts(DB, Claims(hdr), [NoArg EXCEPT !.gid = g],
                                             f1, FALSE))

GroupSharePrompt ==
    /\ Ready
    /\ \E hdr \in Headers :
           \/ Rejected("group_share_prompt", hdr)
           \/ \E g \in GroupIds, p \in PromptIds, f1 \in BOOLEAN :
                 Depends("group_share_prompt", hdr, [NoArg EXCEPT !.gid = g, !.pid = p],
                         group_share_prompt(DB, Claims(hdr), [NoArg EXCEPT !.gid = g, !.pid = p],
                                            f1, FALSE))

UnsharePrompt ==
    /\ Ready
    /\ \E hdr \in Headers :
           \/ Rejected("unshare_prompt", hdr)
           \/ \E g \in GroupIds, p \in PromptIds, f1 \in BOOLEAN :
                 Depends("unshare_prompt", hdr, [NoArg EXCEPT !.gid = g, !.pid = p],
                         unshare_prompt(DB, Claims(hdr), [NoArg EXCEPT !.gid = g, !.pid = p],
                                        f1, FALSE))

FetchInvites ==
    /\ Ready
    /\ \E hdr \in Headers :
           \/ Rejected("fetch_invites", hdr)
           \/ \E f1 \in BOOLEAN :
                 Depends("fetch_invites", hdr, NoArg,
                         fetch_invites(DB, Claims(hdr), NoArg,
                                       f1, FALSE))

InviteMember ==
    /\ Ready
    /\ \E hdr \in Headers :
           \/ Rejected("invite_member", hdr)
           \/ \E g \in GroupIds, v \in Emails, f1 \in BOOLEAN :
                 /\ Free(InviteIds, {i.id : i \in group_invites})
                 /\ Depends("invite_member", hdr, [NoArg EXCEPT !.gid = g, !.val = v],
                         invite_member(DB, Claims(hdr), [NoArg EXCEPT !.gid = g, !.val = v],
                                       f1, FALSE))

CancelInvite ==
    /\ Ready
    /\ \E hdr \in Headers :
           \/ Rejected("cancel_invite", hdr)
           \/ \E i \in InviteIds, f1 \in BOOLEAN :
                 Depends("cancel_invite", hdr, [NoArg EXCEPT !.iid = i],
                         cancel_invite(DB, Claims(hdr), [NoArg EXCEPT !.iid = i],
                                       f1, FALSE))

AcceptInvite ==
    /\ Ready
    /\ \E hdr \in Headers :
           \/ Rejected("accept_invite", hdr)
           \/ \E i \in InviteIds, f1 \in BOOLEAN :
                 Depends("accept_invite", hdr, [NoArg EXCEPT !.iid = i],
                         accept_invite(DB, Claims(hdr), [NoArg EXCEPT !.iid = i],
                                       f1, FALSE))

DeclineInvite ==
    /\ Ready
    /\ \E hdr \in Headers :
           \/ Rejected("decline_invite", hdr)
           \/ \E i \in InviteIds, f1 \in BOOLEAN :
                 Depends("decline_invite", hdr, [NoArg EXCEPT !.iid = i],
                         decline_invite(DB, Claims(hdr), [NoArg EXCEPT !.iid = i],
                                        f1, FALSE))

FetchPrompts ==
    /\ Ready
    /\ \E hdr \in Headers :
           \/ Rejected("fetch_prompts", hdr)
           \/ \E f1 \in BOOLEAN :
                 Depends("fetch_prompts", hdr, NoArg,
                         fetch_prompts(DB, Claims(hdr), NoArg,
                                       f1, FALSE))

CreatePrompt ==
    /\ Ready
    /\ \E hdr \in Headers :
           \/ Rejected("create_prompt", hdr)
           \/ \E v \in Privacies, f1 \in BOOLEAN :
                 /\ Free(PromptIds, {p.id : p \in prompts})
                 /\ Depends("create_prompt", hdr, [NoArg EXCEPT !.val = v],
                         create_prompt(DB, Claims(hdr), [NoArg EXCEPT !.val = v],
                                       f1, FALSE))

UpdatePrompt ==
    /\ Ready
    /\ \E hdr \in Headers :
           \/ Rejected("update_prompt", hdr)
           \/ \E p \in PromptIds, v \in Privacies, f1 \in BOOLEAN :
                 Depends("update_prompt", hdr, [NoArg EXCEPT !.pid = p, !.val = v],
                         update_prompt(DB, Claims(hdr), [NoArg EXCEPT !.pid = p, !.val = v],
                                       f1, FALSE))

DeletePrompt ==
    /\ Ready
    /\ \E hdr \in Headers :
           \/ Rejected("delete_prompt", hdr)
           \/ \E p \in PromptIds, f1 \in BOOLEAN :
                 Depends("delete_prompt", hdr, [NoArg EXCEPT !.pid = p],
                         delete_prompt(DB, Claims(hdr), [NoArg EXCEPT !.pid = p],
                                       f1, FALSE))

SharePrompt ==
    /\ Ready
    /\ \E hdr \in Headers :
           \/ Rejected("share_prompt", hdr)
           \/ \E p \in PromptIds, v \in PromptIds, u \in Users, f1 \in BOOLEAN :
                 /\ Free(ShareIds, {s.id : s \in prompt_shares})
                 /\ Depends("share_prompt", hdr, [NoArg EXCEPT !.pid = p, !.val = v, !.uid = u],
                         share_prompt(DB, Claims(hdr), [NoArg EXCEPT !.pid = p, !.val = v, !.uid = u],
                                      f1, FALSE))

RevokePromptAccess ==
    /\ Ready
    /\ \E hdr \in Headers :
           \/ Rejected("revoke_prompt_access", hdr)
           \/ \E p \in PromptIds, u \in Users, f1 \in BOOLEAN :
                 Depends("revoke_prompt_access", hdr, [NoArg EXCEPT !.pid = p, !.uid = u],
                         revoke_prompt_access(DB, Claims(hdr), [NoArg EXCEPT !.pid = p, !.uid = u],
                                              f1, FALSE))

GetPromptShares ==
    /\ Ready
    /\ \E hdr \in Headers :
           \/ Rejected("get_prompt_shares", hdr)
           \/ \E p \in PromptIds, f1 \in BOOLEAN :
                 Depends("get_prompt_shares", hdr, [NoArg EXCEPT !.pid = p],
                         get_prompt_shares(DB, Claims(hdr), [NoArg EXCEPT !.pid = p],
                                           f1, FALSE))

UpdateVisibility ==
    /\ Ready
    /\ \E hdr \in Headers :
           \/ Rejected("update_visibility", hdr)
           \/ \E p \in PromptIds, v \in Privacies, f1 \in BOOLEAN :
                 Depends("update_visibility", hdr, [NoArg EXCEPT !.pid = p, !.val = v],
                         update_visibility(DB, Claims(hdr), [NoArg EXCEPT !.pid = p, !.val = v],
                                           f1, FALSE))

GetUser ==
    /\ Ready
    /\ \E hdr \in Headers :
           \/ Rejected("get_user", hdr)
           \/ \E f1 \in BOOLEAN :
                 Depends("get_user", hdr, NoArg,
                         get_user(DB, Claims(hdr), NoArg,
                                  f1, FALSE))

UpdateProfile ==
    /\ Ready
    /\ \E hdr \in Headers :
           \/ Rejected("update_profile", hdr)
           \/ \E f1 \in BOOLEAN :
                 Depends("update_profile", hdr, NoArg,
                         update_profile(DB, Claims(hdr), NoArg,
                                        f1, FALSE))

UploadAvatar ==
    /\ Ready
    /\ \E hdr \in Headers :
           \/ Rejected("upload_avatar", hdr)
           \/ \E f1, f2 \in BOOLEAN :
                 /\ Free(FileIds, {o.file : o \in storage})
                 /\ Depends("upload_avatar", hdr, NoArg,
                         upload_avatar(DB, Claims(hdr), NoArg,
                                       f1, f2))

SignOut ==
    /\ Ready
    /\ \E hdr \in Headers :
           \/ Rejected("sign_out", hdr)
           \/ Depends("sign_out", hdr, NoArg,
                         sign_out(DB, Claims(hdr), NoArg,
                                  FALSE, FALSE))

SignIn ==
    /\ Ready
    /\ \E u \in Users, f1 \in BOOLEAN :
        Public("sign_in", [NoArg EXCEPT !.uid = u],
               sign_in(DB, NoClaims, [NoArg EXCEPT !.uid = u], f1, FALSE))

SignUp ==
    /\ Ready
    /\ \E u \in Users, f1 \in BOOLEAN :
        Public("sign_up", [NoArg EXCEPT !.uid = u],
               sign_up(DB, NoClaims, [NoArg EXCEPT !.uid = u], f1, FALSE))

\* POST /openai: user=Depends(get_current_user); the prompt does not decide
\* the outcome, the upstream exchange does.
OpenaiEndpoint ==
    /\ Ready
    /\ \E hdr \in Headers :
           \/ Rejected("openai_endpoint", hdr)
           \/ \E up \in Upstreams, auth \in {get_current_user(hdr)} :
                 /\ auth.status = 200
                 /\ Respond("openai_endpoint", hdr, NoArg, TRUE, auth.payload,
                            openai_endpoint(DB, auth.payload, up))
                 /\ upstream' = up

GroupsRouter ==
    \/ FetchGroups \/ CreateGroup \/ UpdateGroup \/ DeleteGroup
    \/ FetchMembers \/ AddMember \/ UpdateMemberRole \/ RemoveMember
    \/ FetchGroupPrompts \/ GroupSharePrompt \/ UnsharePrompt
    \/ FetchInvites \/ InviteMember \/ DeclineInvite \/ CancelInvite
    \/ AcceptInvite

PromptsRouter ==
    \/ FetchPrompts \/ CreatePrompt \/ UpdatePrompt \/ DeletePrompt
    \/ SharePrompt \/ RevokePromptAccess \/ GetPromptShares
    \/ UpdateVisibility

AuthRouter ==
    \/ SignIn \/ SignUp \/ GetUser \/ UpdateProfile \/ UploadAvatar
    \/ SignOut

OpenaiRouter == OpenaiEndpoint

Next == GroupsRouter \/ PromptsRouter \/ AuthRouter \/ OpenaiRouter \/ Finish

Spec == Init /\ [][Next]_vars

\* The routers keep to tables of their own (groups, group_members,
\* group_invites and group_prompts; prompts and prompt_shares;
\* user_profiles and the bucket), so each is also checked alone.
SpecGroups == Init /\ [][GroupsRouter \/ Finish]_vars
SpecPrompts == Init /\ [][PromptsRouter \/ Finish]_vars
SpecAuth == Init /\ [][AuthRouter \/ Finish]_vars
SpecOpenai == Init /\ [][OpenaiRouter \/ Finish]_vars

(***************************************************************************)
(* Properties                                                              *)
(***************************************************************************)
\* A header that carries `Bearer <token>` with a token signed with the
\* configured secret and not expired.
VerifiedToken(hdr) ==
    /\ hdr.present
    /\ hdr.scheme = "Bearer"
    /\ hdr.token.fmt = "jwt"
    /\ hdr.token.sig = "good"
    /\ hdr.token.exp = "future"

Served == last.op # "none"

\* The six tables of the sharing model.
SharingTables ==
    <<groups, group_members, group_invites, prompts, prompt_shares, group_prompts>>

CallsOf(r) == {r.calls[k] : k \in 1..Len(r.calls)}

\* C1: a request whose Authorization header is missing, is not `Bearer ...`
\* or carries a malformed, wrongly signed or expired token is answered 401,
\* no claims are returned and the guarded handler does not run.
C1_BadHeaderIs401 ==
    (Served /\ last.guarded /\ ~VerifiedToken(last.hdr))
        => (last.status = 401 /\ last.user = NoClaims /\ last.calls = <<>>)

\* C2: a request changes a row of groups, group_members, group_invites,
\* prompts, prompt_shares or group_prompts only if it went through the guard
\* with a verified token, and the handler then ran with that token's subject.
C2_MutationsAttributable ==
    [][SharingTables' # SharingTables
          => /\ last'.guarded
             /\ VerifiedToken(last'.hdr)
             /\ last'.user.sub = last'.hdr.token.sub]_vars

C2_Witness ==
    /\ last.op = "invite_member"
    /\ last.status = 200
    /\ \E i \in group_invites : i.invited_by = last.user.sub

\* C3: an invite whose status is no longer pending keeps its status and is
\* not removed, whatever request comes next.
C3_NonPendingInviteFrozen ==
    [][\A i \in group_invites : i.status # "pending" => i \in group_invites']_vars

\* C4: update_prompt, delete_prompt and update_visibility on a prompt by a
\* verified caller who is not its owner answer with a failure and leave the
\* prompt rows as they were.
C4_NonOwnerFails ==
    [][(/\ last'.op \in {"update_prompt", "delete_prompt", "update_visibility"}
        /\ last'.user.sub # NA
        /\ \E p \in prompts : p.id = last'.arg.pid /\ p.user_id # last'.user.sub)
          => (last'.status >= 400 /\ prompts' = prompts)]_vars

\* C5: when its queries go through, fetch_groups answers a verified caller
\* with exactly the groups that are public or have a membership row of the
\* caller, each flagged is_member iff the caller is in its member list.
C5_FetchGroupsExact ==
    (/\ last.op = "fetch_groups"
     /\ last.user.sub # NA
     /\ \A c \in CallsOf(last) : ~c.failed)
        => /\ last.status = 200
           /\ last.body =
                {[id |-> g.id, flag |-> IsMember(DB, g.id, last.user.sub)] :
                    g \in {x \in groups : x.privacy = "public"
                                            \/ IsMember(DB, x.id, last.user.sub)}}

\* The handlers that attribute ownership to the caller or key a row by the
\* caller.
OwnerOps ==
    {"create_group", "group_share_prompt", "invite_member", "create_prompt",
     "update_prompt", "delete_prompt", "update_visibility", "share_prompt",
     "get_user", "update_profile", "upload_avatar"}

\* C6: a handler that attributes ownership or keys a row by the caller, run
\* with a verified token, reaches its gateway call, and every identity it
\* passes to the gateway is the token's sub.
C6_IdentityIsSub ==
    (last.op \in OwnerOps /\ VerifiedToken(last.hdr))
        => /\ last.calls # <<>>
           /\ \A c \in CallsOf(last) : c.by \in {NA, last.hdr.token.sub}

\* C7: a request one of whose gateway calls came back empty, absent or with
\* an error is answered 400 -- in particular never with a success -- and no
\* gateway call is issued twice.  Stated with "not a success" for the status,
\* which the 400 of the claim implies.
C7_EmptyOrErrorNeverSuccess ==
    (Served /\ \E c \in CallsOf(last) : c.empty)
        => /\ last.status >= 400
           /\ Cardinality(CallsOf(last)) = Len(last.calls)

\* C8: upload_avatar uploads before it updates the profile and does not
\* compensate: a failed upload leaves the bucket and the profiles as they
\* were; an upload that went through followed by no or a failed profile
\* update answers with an error, keeps the stored object and leaves every
\* avatar_url as it was.
C8_UploadThenUpdate ==
    [][(last'.op = "upload_avatar" /\ last'.calls # <<>>)
          => LET c == last'.calls
             IN  /\ c[1].tbl = "storage" /\ c[1].verb = "upload"
                 /\ \A k \in 1..Len(c) : c[k].tbl = "user_profiles" => k > 1
                 /\ c[1].failed =>
                        /\ Len(c) = 1
                        /\ last'.status >= 400
                        /\ storage' = storage
                        /\ user_profiles' = user_profiles
                 /\ (~c[1].failed /\ (Len(c) < 3 \/ c[3].failed)) =>
                        /\ last'.status >= 400
                        /\ storage \subseteq storage'
                        /\ Cardinality(storage' \ storage) = 1
                        /\ user_profiles' = user_profiles]_vars

C8_Witness ==
    /\ last.op = "upload_avatar"
    /\ Len(last.calls) = 3
    /\ ~last.calls[1].failed
    /\ last.calls[3].failed
    /\ last.status = 400
    /\ storage # {}

C10_CreateGroupFrame ==
    [][(last'.op = "create_group" /\ last'.user.sub # NA)
          => /\ group_members' = group_members
             /\ IF \E c \in CallsOf(last') : ~c.failed
                THEN \E row \in groups' :
                        /\ row \notin groups
                        /\ groups' = groups \cup {row}
                        /\ row.created_by = last'.hdr.token.sub
                        /\ last'.status = 200
                ELSE groups' = groups]_vars

C10_Witness ==
    /\ last.op = "create_group"
    /\ last.status = 200
    /\ \E g \in groups : g.created_by = last.user.sub
    /\ group_members = {}

\* C11: openai_endpoint, run for a verified caller, posts once to the
\* upstream; when the upstream answers with a JSON body, the response is that
\* body, unchanged, iff the upstream status is 2xx; every other outcome is
\* answered 500.
C11_UpstreamBodyIff2xx ==
    (last.op = "openai_endpoint" /\ last.status # 401 /\ last.status # 422)
        => /\ upstream.posts = 1
           /\ Len(last.calls) = 1
           /\ last.status \in {200, 500}
           /\ last.status = 200
                 => last.body = {[id |-> upstream.body, flag |-> TRUE]}
           /\ (upstream.reached /\ upstream.json)
                 => (last.status = 200
                        <=> (upstream.status >= 200 /\ upstream.status < 300))

\* C12: revoke_prompt_access(prompt_id, shared_with), when its delete goes
\* through, removes exactly the share rows whose prompt_id and shared_with
\* are the given pair, whatever their ids; every other share row and every
\* row of every other table is left as it was (and nothing is removed when
\* the backend refuses the delete).
C12_RevokeByCompositeKey ==
    [][(last'.op = "revoke_prompt_access" /\ last'.user.sub # NA)
          => /\ prompts' = prompts
             /\ <<groups, group_members, group_invites, group_prompts,
                  user_profiles, storage>>' =
                <<groups, group_members, group_invites, group_prompts,
                  user_profiles, storage>>
             /\ LET hit == {s \in prompt_shares :
                               /\ s.prompt_id = last'.arg.pid
                               /\ s.shared_with = last'.arg.uid}
                IN  IF \E c \in CallsOf(last') : ~c.failed
                    THEN prompt_shares' = prompt_shares \ hit
                    ELSE prompt_shares' = prompt_shares]_vars

\* A revocation that removed a row and left another share row in place.
C12_Witness ==
    /\ last.op = "revoke_prompt_access"
    /\ last.status = 200
    /\ \E c \in CallsOf(last) : ~c.failed /\ ~c.empty
    /\ prompt_shares # {}
    /\ \A s \in prompt_shares :
          ~(s.prompt_id = last.arg.pid /\ s.shared_with = last.arg.uid)

Store ==
    <<groups, group_members, group_invites, prompts, prompt_shares,
      group_prompts, user_profiles, storage>>

\* The handlers of the groups and prompts routers, get_user and
\* update_profile.
StoreOps ==
    {"fetch_groups", "create_group", "update_group", "delete_group",
     "fetch_members", "add_member", "update_member_role", "remove_member",
     "fetch_group_prompts", "group_share_prompt", "unshare_prompt",
     "fetch_invites", "invite_member", "cancel_invite", "accept_invite",
     "decline_invite", "fetch_prompts", "create_prompt", "update_prompt",
     "delete_prompt", "share_prompt", "revoke_prompt_access",
     "get_prompt_shares", "update_visibility", "get_user", "update_profile"}

\* C13: a request to a handler of the groups or prompts router, to get_user
\* or to update_profile that is answered with an error (4xx or 5xx) has left
\* every table and the bucket as they were before the request.
C13_ErrorLeavesStore ==
    [][(last'.op \in StoreOps /\ last'.status >= 400) => Store' = Store]_vars

\* C14: the share row created by POST /prompts/{prompt_id}/share carries the
\* prompt_id of the request path.
C14_ShareRowHasPathId ==
    [][(last'.op = "share_prompt" /\ last'.status = 200)
          => \E s \in prompt_shares' \ prompt_shares :
                /\ prompt_shares' = prompt_shares \cup {s}
                /\ s.prompt_id = last'.arg.pid
                /\ s.shared_with = last'.arg.uid]_vars

\* C15: when its query goes through, fetch_invites answers a verified caller
\* with success and exactly the invites whose email is the caller's email
\* claim and whose status is pending.
C15_FetchInvitesExact ==
    (/\ last.op = "fetch_invites"
     /\ last.user.sub # NA
     /\ \A c \in CallsOf(last) : ~c.failed)
        => /\ last.status = 200
           /\ last.body =
                {[id |-> i.id, flag |-> FALSE] :
                    i \in {j \in group_invites :
                              j.email = last.user.email /\ j.status = "pending"}}

==================================================
